---- MODULE Spec2Model ----
(***************************************************************************)
(* Model of the DjangoMiniatureGalleryApp search pipeline                  *)
(* (searches.py: is_valid_search_string, parse_search_string,              *)
(* wide_db_search; views.py: BatchIndexFunc and its own copies of the      *)
(* three), of the Category tree operations (models.py:                     *)
(* is_category_safe, get_cascading_category, get_category_batches, clean   *)
(* and save), of the Storage capacity and location methods and of          *)
(* Batch.get_stage_string.                                                 *)
(*                                                                         *)
(* Strings are sequences of one-character strings, so that containment,    *)
(* prefix tests, case folding and trailing-"s" trimming are computed as    *)
(* the code computes them.  Database tables are sequences of rows; a row's *)
(* primary key is its index.  An optional value (Python None or a value)   *)
(* is the empty set or a singleton.                                        *)
(***************************************************************************)
EXTENDS Integers, Sequences, FiniteSets, TLC

VARIABLES
    parent,            \* Category.parent of every stored Category (None or a pk)
    pc,                \* position of the running operation
    op,                \* name of the operation that was called
    self,              \* the Category the tree operation was called on
    visited,           \* is_category_safe: visited list
    next_node_ptr,     \* is_category_safe: next_node_ptr
    frames,            \* get_cascading_category: the selfs of the active calls
    categories_stack,  \* get_category_batches: categories_stack
    batch_list,        \* get_category_batches: batch_list
    popped,            \* get_category_batches: the values curr_category took
    result,            \* None until the operation returns, then its return value
    search_terms,      \* wide_db_search: its argument
    output_set,        \* wide_db_search: output_set
    terms,             \* wide_db_search: terms
    raised,            \* an exception left the function
    search_phrases,    \* the raw search string (None or a str)
    edit_date,         \* Batch.edit_date of every stored Batch (None or a day)
    context,           \* BatchIndexFunc: the context it renders (None before)
    current_cap,       \* Storage.current_cap of the Storage the calls are made on
    location,          \* Storage.location
    last_moved,        \* Storage.last_moved (None or a day)
    batch_stage,       \* Batch.stage of the Batch get_stage_string is called on
    error_message      \* the message of the exception that left the call (None or a str)

searchVars == << search_terms, output_set, terms, raised >>

viewVars == << search_phrases, edit_date, context >>

\* the fields of the Storage and of the Batch the methods are called on
objectVars == << current_cap, location, last_moved, batch_stage, error_message >>

vars == << parent, pc, op, self, visited, next_node_ptr, frames,
           categories_stack, batch_list, popped, result, searchVars, viewVars,
                    objectVars >>

\* the value the operation returned
ret == CHOOSE v \in result : TRUE

-----------------------------------------------------------------------------
(* Optional values and Python sequences *)

None == {}
Some(v) == {v}
The(o) == CHOOSE v \in o : TRUE

Range(s) == { s[i] : i \in 1..Len(s) }

\* list.count(x)
Count(s, x) == Cardinality({ i \in 1..Len(s) : s[i] = x })

\* the rows of a table (by primary key, ascending) that satisfy Test
FilterIds(table, Test(_)) ==
    SelectSeq([i \in 1..Len(table) |-> i], Test)

-----------------------------------------------------------------------------
(* Strings *)

UpperChars == << "A", "B", "C", "D", "E", "F", "G", "H", "I", "J", "K", "L", "M",
                 "N", "O", "P", "Q", "R", "S", "T", "U", "V", "W", "X", "Y", "Z" >>
LowerChars == << "a", "b", "c", "d", "e", "f", "g", "h", "i", "j", "k", "l", "m",
                 "n", "o", "p", "q", "r", "s", "t", "u", "v", "w", "x", "y", "z" >>

LowerChar(c) ==
    IF \E i \in 1..Len(UpperChars) : UpperChars[i] = c
    THEN LowerChars[CHOOSE i \in 1..Len(UpperChars) : UpperChars[i] = c]
    ELSE c

UpperChar(c) ==
    IF \E i \in 1..Len(LowerChars) : LowerChars[i] = c
    THEN UpperChars[CHOOSE i \in 1..Len(LowerChars) : LowerChars[i] = c]
    ELSE c

\* str.lower()
Lower(s) == [i \in 1..Len(s) |-> LowerChar(s[i])]

\* str.capitalize(): first character upper case, the rest lower case
Capitalize(s) == [i \in 1..Len(s) |-> IF i = 1 THEN UpperChar(s[i]) ELSE LowerChar(s[i])]

\* str.startswith(prefix)
StartsWith(s, prefix) ==
    /\ Len(prefix) <= Len(s)
    /\ SubSeq(s, 1, Len(prefix)) = prefix

Contains(s, sub) ==
    \E i \in 0..(Len(s) - Len(sub)) : SubSeq(s, i + 1, i + Len(sub)) = sub

\* the __icontains field lookup
IContains(s, sub) == Contains(Lower(s), Lower(sub))

\* s[0:-1]
DropLast(s) == SubSeq(s, 1, Len(s) - 1)

-----------------------------------------------------------------------------
(* The stored tables.  The Category parents are the variable `parent`. *)

CategoryTable == <<
    [name |-> <<"X", "e", "n", "o">>],
    [name |-> <<"O", "r", "k">>],
    [name |-> <<"O", "r", "b">>] >>

UnitTable == <<
    [name |-> <<"N", "e", "c", "r", "o", "n", " ", "W", "a", "r", "r", "i", "o", "r", "s">>,
     category |-> 1, utype |-> <<"I", "n", "f", "a", "n", "t", "r", "y">>],
    [name |-> <<"O", "r", "k", " ", "B", "o", "s", "s">>,
     category |-> 2, utype |-> <<"C", "h", "a", "r", "a", "c", "t", "e", "r">>],
    [name |-> <<"G", "r", "o", "t">>,
     category |-> 3, utype |-> <<"I", "n", "f", "a", "n", "t", "r", "y">>] >>

KitTable == <<
    [name |-> <<"B", "o", "x">>],
    [name |-> <<"s", "p", "a", "r", "e">>],
    [name |-> <<"U", "n", "o", "p", "e", "n", "e", "d">>] >>

\* Batch.Stage
StageChoices == <<
    [value |-> 0, label |-> <<"U", "n", "o", "p", "e", "n", "e", "d">>],
    [value |-> 1, label |-> <<"B", "u", "i", "l", "d", "i", "n", "g">>],
    [value |-> 2, label |-> <<"M", "a", "g", "n", "e", "t", "i", "z", "i", "n", "g">>],
    [value |-> 3, label |-> <<"P", "r", "i", "m", "i", "n", "g">>],
    [value |-> 4, label |-> <<"P", "a", "i", "n", "t", "i", "n", "g">>],
    [value |-> 5, label |-> <<"B", "a", "s", "i", "n", "g">>],
    [value |-> 6, label |-> <<"V", "a", "r", "n", "i", "s", "h", "i", "n", "g">>],
    [value |-> 7, label |-> <<"R", "e", "p", "a", "i", "r", "i", "n", "g">>],
    [value |-> 8, label |-> <<"C", "o", "m", "p", "l", "e", "t", "e", "d">>] >>

\* Unit.UnitType
UnitTypes == <<
    <<"H", "o", "r", "d", "e">>,
    <<"I", "n", "f", "a", "n", "t", "r", "y">>,
    <<"C", "h", "a", "r", "a", "c", "t", "e", "r">>,
    <<"E", "p", "i", "c", " ", "C", "h", "a", "r", "a", "c", "t", "e", "r">>,
    <<"V", "e", "h", "i", "c", "l", "e">>,
    <<"M", "o", "n", "s", "t", "e", "r">>,
    <<"T", "i", "t", "a", "n">>,
    <<"D", "i", "s", "p", "l", "a", "y">> >>

BatchTable == <<
    [unit_id |-> 1, kit_id |-> 1, stage |-> 4],
    [unit_id |-> 1, kit_id |-> 2, stage |-> 0],
    [unit_id |-> 2, kit_id |-> 2, stage |-> 4],
    [unit_id |-> 3, kit_id |-> 1, stage |-> 8],
    [unit_id |-> 3, kit_id |-> 3, stage |-> 1] >>

TagTable == <<
    [name |-> <<"e", "l", "i", "t", "e">>],
    [name |-> <<"s", "p", "a", "r", "e">>] >>

TagAssignmentTable == <<
    [tag_id |-> 1, batch_id |-> 1] >>

Categories == 1..Len(CategoryTable)
Batches == 1..Len(BatchTable)

\* QuerySet.get(): the single matching row, or an exception the callers turn into None
Get(ids) == IF Len(ids) = 1 THEN Some(ids[1]) ELSE None

-----------------------------------------------------------------------------
(* Category (models.py) *)

\* SafeIter with the test written `>= 1`: the node just appended always counts
SafeIter_CountAtLeastOne(vis, nxt) ==
    IF nxt = None
    THEN [visited |-> vis, next_node_ptr |-> nxt, ret |-> Some(TRUE)]
    ELSE LET appended == Append(vis, The(nxt)) IN
         IF Count(appended, The(nxt)) >= 1
         THEN [visited |-> appended, next_node_ptr |-> nxt, ret |-> Some(FALSE)]
         ELSE [visited |-> appended, next_node_ptr |-> parent[The(nxt)], ret |-> None]

\* SafeIter counting before it appends: a loop is seen one round late
SafeIter_CountBeforeAppend(vis, nxt) ==
    IF nxt = None
    THEN [visited |-> vis, next_node_ptr |-> nxt, ret |-> Some(TRUE)]
    ELSE IF Count(vis, The(nxt)) > 1
         THEN [visited |-> vis, next_node_ptr |-> nxt, ret |-> Some(FALSE)]
         ELSE [visited |-> Append(vis, The(nxt)),
               next_node_ptr |-> parent[The(nxt)], ret |-> None]

\* one test of the while condition of is_category_safe and, when it holds, one
\* run of the loop body; ret is None while the loop goes on
SafeIter(vis, nxt) ==
    IF nxt = None
    THEN [visited |-> vis, next_node_ptr |-> nxt, ret |-> Some(TRUE)]
    ELSE LET appended == Append(vis, The(nxt)) IN
         IF Count(appended, The(nxt)) > 1
         THEN [visited |-> appended, next_node_ptr |-> nxt, ret |-> Some(FALSE)]
         ELSE [visited |-> appended, next_node_ptr |-> parent[The(nxt)], ret |-> None]

RECURSIVE SafeWalk(_, _)
SafeWalk(vis, nxt) ==
    LET r == SafeIter(vis, nxt) IN
    IF r.ret # None THEN The(r.ret) ELSE SafeWalk(r.visited, r.next_node_ptr)

\* Category.is_category_safe, as called by the other methods
is_category_safe(c) == SafeWalk(<< c >>, parent[c])

\* Category.objects.filter(parent=curr_category.id)
ChildCategories(c) ==
    FilterIds(CategoryTable, LAMBDA d : parent[d] = Some(c))

\* Batch.objects.filter(unit_id__category=curr_category.id)
BatchesOfCategory(c) ==
    FilterIds(BatchTable, LAMBDA b : UnitTable[BatchTable[b].unit_id].category = c)

\* DfsIter that does not push the children of the popped category
DfsIter_NoChildren(stack, list) ==
    LET curr_category == stack[Len(stack)] IN
    [categories_stack |-> DropLast(stack),
     batch_list |-> list \o BatchesOfCategory(curr_category),
     curr_category |-> curr_category]

\* one run of the body of the DFS loop of get_category_batches
DfsIter(stack, list) ==
    LET curr_category == stack[Len(stack)] IN
    [categories_stack |-> DropLast(stack) \o ChildCategories(curr_category),
     batch_list |-> list \o BatchesOfCategory(curr_category),
     curr_category |-> curr_category]

RECURSIVE DfsWalk(_, _)
DfsWalk(stack, list) ==
    IF Len(stack) > 0
    THEN LET r == DfsIter(stack, list) IN DfsWalk(r.categories_stack, r.batch_list)
    ELSE list

\* Category.get_category_batches, as called by wide_db_search
get_category_batches(c) ==
    IF ~is_category_safe(c) THEN << >> ELSE DfsWalk(<< c >>, << >>)

\* what one call of get_cascading_category does before it recurses or returns:
\* the parent to recurse into (recurse), or the string to return (ret)
CascadeEnter(c) ==
    IF is_category_safe(c)
    THEN IF parent[c] # None
         THEN [recurse |-> parent[c], ret |-> None]
         ELSE [recurse |-> None, ret |-> Some(<< >> \o CategoryTable[c].name)]
    ELSE [recurse |-> None, ret |-> Some(CategoryTable[c].name)]

\* CascadeResume with the two names in the wrong order
CascadeResume_ChildFirst(c, returned) ==
    (<< >> \o CategoryTable[c].name \o << "/" >>) \o returned

\* what a call does with the string its recursive call returned
CascadeResume(c, returned) ==
    (<< >> \o returned \o << "/" >>) \o CategoryTable[c].name

-----------------------------------------------------------------------------
(* The tree operations as processes *)

TreeIdle ==
    /\ pc = "idle"

IsCategorySafeCall(c) ==
    /\ TreeIdle
    /\ op' = "is_category_safe"
    /\ self' = Some(c)
    /\ visited' = << c >>
    /\ next_node_ptr' = parent[c]
    /\ pc' = "safe_while"
    /\ UNCHANGED << parent, frames, categories_stack, batch_list, popped, result,
                    searchVars, viewVars,
                    objectVars >>

IsCategorySafeWhile ==
    /\ pc = "safe_while"
    /\ LET r == SafeIter(visited, next_node_ptr) IN
        /\ visited' = r.visited
        /\ next_node_ptr' = r.next_node_ptr
        /\ IF r.ret # None
           THEN result' = r.ret /\ pc' = "done"
           ELSE UNCHANGED << result, pc >>
    /\ UNCHANGED << parent, op, self, frames, categories_stack, batch_list, popped,
                    searchVars, viewVars,
                    objectVars >>

GetCascadingCategoryCall(c) ==
    /\ TreeIdle
    /\ op' = "get_cascading_category"
    /\ self' = Some(c)
    /\ frames' = << c >>
    /\ pc' = "cascade_enter"
    /\ UNCHANGED << parent, visited, next_node_ptr, categories_stack, batch_list,
                    popped, result, searchVars, viewVars,
                    objectVars >>

\* the innermost call runs up to its recursive call or its return
GetCascadingCategoryEnter ==
    /\ pc = "cascade_enter"
    /\ LET r == CascadeEnter(frames[Len(frames)]) IN
        IF r.recurse # None
        THEN /\ frames' = Append(frames, The(r.recurse))
             /\ UNCHANGED << result, pc >>
        ELSE /\ frames' = DropLast(frames)
             /\ result' = r.ret
             /\ pc' = "cascade_return"
    /\ UNCHANGED << parent, op, self, visited, next_node_ptr, categories_stack,
                    batch_list, popped, searchVars, viewVars,
                    objectVars >>

\* a call gets the string of its recursive call and returns, or the outermost
\* call has returned
GetCascadingCategoryReturn ==
    /\ pc = "cascade_return"
    /\ IF Len(frames) > 0
       THEN /\ result' = Some(CascadeResume(frames[Len(frames)], ret))
            /\ frames' = DropLast(frames)
            /\ UNCHANGED pc
       ELSE /\ pc' = "done"
            /\ UNCHANGED << result, frames >>
    /\ UNCHANGED << parent, op, self, visited, next_node_ptr, categories_stack,
                    batch_list, popped, searchVars, viewVars,
                    objectVars >>

GetCategoryBatchesCall(c) ==
    /\ TreeIdle
    /\ op' = "get_category_batches"
    /\ self' = Some(c)
    /\ IF ~is_category_safe(c)
       THEN /\ result' = Some(<< >>)
            /\ pc' = "done"
            /\ UNCHANGED << categories_stack, batch_list >>
       ELSE /\ batch_list' = << >>
            /\ categories_stack' = << c >>
            /\ pc' = "dfs_while"
            /\ UNCHANGED result
    /\ UNCHANGED << parent, visited, next_node_ptr, frames, popped,
                    searchVars, viewVars,
                    objectVars >>

GetCategoryBatchesWhile ==
    /\ pc = "dfs_while"
    /\ IF Len(categories_stack) > 0
       THEN LET r == DfsIter(categories_stack, batch_list) IN
            /\ categories_stack' = r.categories_stack
            /\ batch_list' = r.batch_list
            /\ popped' = Append(popped, r.curr_category)
            /\ UNCHANGED << result, pc >>
       ELSE /\ result' = Some(batch_list)
            /\ pc' = "done"
            /\ UNCHANGED << categories_stack, batch_list, popped >>
    /\ UNCHANGED << parent, op, self, visited, next_node_ptr, frames,
                    searchVars, viewVars,
                    objectVars >>

-----------------------------------------------------------------------------
(* The classifiers (models.py) *)

\* Tag.get_tag_via_name
get_tag_via_name(tag_name) ==
    Get(FilterIds(TagTable, LAMBDA t : TagTable[t].name = tag_name))

\* Tag.get_tagged_batches
get_tagged_batches(tag) ==
    LET assigns == FilterIds(TagAssignmentTable,
                             LAMBDA a : TagAssignmentTable[a].tag_id = tag)
    IN [i \in 1..Len(assigns) |-> TagAssignmentTable[assigns[i]].batch_id]

\* Category.get_category_via_name
get_category_via_name(category_name) ==
    IF Len(category_name) = 0
    THEN None
    ELSE LET trimmed == IF category_name[Len(category_name)] = "s"
                        THEN DropLast(category_name)
                        ELSE category_name
         IN Get(FilterIds(CategoryTable,
                          LAMBDA c : IContains(CategoryTable[c].name, trimmed)))

\* Batch.get_stage_via_name
get_stage_via_name(stage_name) ==
    IF Len(stage_name) <= 3
    THEN None
    ELSE LET capitalized == Capitalize(stage_name)
             hits == FilterIds(StageChoices,
                               LAMBDA i : StartsWith(StageChoices[i].label, capitalized))
         IN IF Len(hits) > 0 THEN Some(StageChoices[hits[1]].value) ELSE None

\* Batch.get_batches_of_stage
get_batches_of_stage(stage_type) ==
    FilterIds(BatchTable, LAMBDA b : BatchTable[b].stage = stage_type)

\* Unit.has_unit_type_of_name
has_unit_type_of_name(type_name) ==
    LET all_cases == [i \in 1..Len(UnitTypes) |-> Lower(UnitTypes[i])]
    IN Count(all_cases, Lower(type_name)) > 0

\* Unit.get_batches_of_unit_type
get_batches_of_unit_type(unit_type) ==
    FilterIds(BatchTable, LAMBDA b : UnitTable[BatchTable[b].unit_id].utype = unit_type)

\* has_units_of_name without the try/except around unit_name[-1]: the empty
\* name is looked up as it is, and every Unit name contains it
has_units_of_name_EmptyLookedUp(unit_name) ==
    LET trimmed == IF Len(unit_name) > 0 /\ LowerChar(unit_name[Len(unit_name)]) = "s"
                   THEN DropLast(unit_name)
                   ELSE unit_name
    IN Len(FilterIds(UnitTable, LAMBDA u : IContains(UnitTable[u].name, trimmed))) > 0

\* Unit.has_units_of_name
has_units_of_name(unit_name) ==
    IF Len(unit_name) = 0
    THEN FALSE
    ELSE LET trimmed == IF LowerChar(unit_name[Len(unit_name)]) = "s"
                        THEN DropLast(unit_name)
                        ELSE unit_name
         IN Len(FilterIds(UnitTable, LAMBDA u : IContains(UnitTable[u].name, trimmed))) > 0

\* Unit.get_batches_with_unit_name: None for the empty string
get_batches_with_unit_name(unit_name) ==
    IF unit_name = << >>
    THEN None
    ELSE Some(FilterIds(BatchTable,
                 LAMBDA b : IContains(UnitTable[BatchTable[b].unit_id].name, unit_name)))

\* Kit.get_kit_via_name
get_kit_via_name(kit_name) ==
    IF kit_name = << >>
    THEN None
    ELSE Get(FilterIds(KitTable, LAMBDA k : IContains(KitTable[k].name, kit_name)))

\* Kit.get_batches_of_kit
get_batches_of_kit(kit) ==
    FilterIds(BatchTable, LAMBDA b : BatchTable[b].kit_id = kit)

-----------------------------------------------------------------------------
(* Search strings (searches.py, views.py) *)

\* the grave accent has no string literal here; "grave" stands for it
PUNCTIUATION_STRIP ==
    << " ", ",", ".", "/", "<", ">", "?", ";", "'", ":", "\"", "\\", "[", "]",
       "}", "{", "|", "=", "-", "grave", "~", "_", "+", ")", "(", "*", "&", "^",
       "%", "$", "#", "@", "!" >>

MAX_STRING == 128

\* c in chars
InChars(c, chars) == \E i \in 1..Len(chars) : chars[i] = c

\* str.lstrip(chars), str.rstrip(chars), str.strip(chars)
RECURSIVE LStrip(_, _)
LStrip(s, chars) ==
    IF s # << >> /\ InChars(Head(s), chars) THEN LStrip(Tail(s), chars) ELSE s

RECURSIVE RStrip(_, _)
RStrip(s, chars) ==
    IF s # << >> /\ InChars(s[Len(s)], chars) THEN RStrip(DropLast(s), chars) ELSE s

Strip(s, chars) == RStrip(LStrip(s, chars), chars)

\* str.replace(old, new) for one-character old and new
Replace(s, old, new) == [i \in 1..Len(s) |-> IF s[i] = old THEN new ELSE s[i]]

\* str.split(sep) for a one-character sep: the pieces between the separators,
\* empty pieces included
RECURSIVE Split(_, _)
Split(s, sep) ==
    IF \A i \in 1..Len(s) : s[i] # sep
    THEN << s >>
    ELSE LET k == CHOOSE i \in 1..Len(s) :
                      s[i] = sep /\ \A j \in 1..(i - 1) : s[j] # sep
         IN << SubSeq(s, 1, k - 1) >> \o Split(SubSeq(s, k + 1, Len(s)), sep)

\* is_valid_search_string (searches.py); tag_string is None or a str
is_valid_search_string(tag_string) ==
    IF tag_string = None
    THEN FALSE
    ELSE Len(Strip(The(tag_string), PUNCTIUATION_STRIP)) > 0

\* parse_search_string with line 149 left out: the pieces are not stripped
parse_search_string_PiecesAsSplit(tag_string) ==
    LET truncated == IF Len(tag_string) > MAX_STRING
                     THEN SubSeq(tag_string, 1, MAX_STRING)
                     ELSE tag_string
    IN IF truncated = << >>
       THEN << >>
       ELSE LET stripped == Strip(truncated, PUNCTIUATION_STRIP)
                csv == Replace(Replace(Replace(Replace(stripped,
                           " ", ","), "<", ","), ">", ","), "_", " ")
            IN SelectSeq(Split(csv, ","), LAMBDA item : item # << >>)

\* parse_search_string without the truncation to MAX_STRING characters
parse_search_string_Untruncated(tag_string) ==
    IF tag_string = << >>
    THEN << >>
    ELSE LET stripped == Strip(tag_string, PUNCTIUATION_STRIP)
             csv == Replace(Replace(Replace(Replace(stripped,
                        " ", ","), "<", ","), ">", ","), "_", " ")
             new_list == Split(csv, ",")
             items == [idx \in 1..Len(new_list) |->
                          Strip(new_list[idx], PUNCTIUATION_STRIP)]
         IN SelectSeq(items, LAMBDA item : item # << >>)

\* parse_search_string (searches.py)
parse_search_string(tag_string) ==
    LET truncated == IF Len(tag_string) > MAX_STRING
                     THEN SubSeq(tag_string, 1, MAX_STRING)
                     ELSE tag_string
    IN IF truncated = << >>
       THEN << >>
       ELSE LET stripped == Strip(truncated, PUNCTIUATION_STRIP)
                csv == Replace(Replace(Replace(Replace(stripped,
                           " ", ","), "<", ","), ">", ","), "_", " ")
                new_list == Split(csv, ",")
                items == [idx \in 1..Len(new_list) |->
                             Strip(new_list[idx], PUNCTIUATION_STRIP)]
            IN SelectSeq(items, LAMBDA item : item # << >>)

\* is_valid_search_string of views.py, the one BatchIndexFunc calls
views_is_valid_search_string(tag_string) ==
    IF tag_string = None
    THEN FALSE
    ELSE Len(Strip(The(tag_string), << " ", ".", ",", "-", "_" >>)) > 0

\* parse_search_string of views.py, the one BatchIndexFunc calls
views_parse_search_string(tag_string) ==
    LET stripped == Strip(tag_string, << " ", ",", "-", "_", "?", "/", "]", "}",
                                        "{", "[", "*", "'" >>)
        csv == Replace(Replace(stripped, " ", ","), "_", " ")
    IN Split(csv, ",")

\* the search strings that are resolved against the stored tables
Queries == {
    <<"n", "e", "c", "r", "o", "n", " ", "p", "a", "i", "n", "t", "i", "n", "g">>,
    <<"n", "e", "c", "r", "o", "n">>,
    <<"e", "l", "i", "t", "e", " ", "p", "a", "i", "n", "t", "i", "n", "g">>,
    <<"o", "r", "k", " ", "e", "l", "i", "t", "e", " ", "s", "p", "a", "r">>,
    <<"e", "l", "i", "t", "e", " ", "s", "p", "a", "r">>,
    <<" ", "o", "r", "k", " ", " ", "e", "l", "i", "t", "e", " ">>,
    <<"<", "o", "r", "k", ">", "p", "a", "i", "n", "t", "i", "n", "g">>,
    <<"e", "p", "i", "c", "_", "c", "h", "a", "r", "a", "c", "t", "e", "r">>,
    <<"u", "n", "o", "p", "e", "n", "e", "d", " ", "b", "o", "x">>,
    <<"s", "p", "a", "r", "e", ",", " ", "z", "z", "z">> }

-----------------------------------------------------------------------------
(* wide_db_search (searches.py) *)

\* the tokens of the searches
Vocabulary == {
    <<"e", "l", "i", "t", "e">>,
    <<"s", "p", "a", "r", "e">>,
    <<"s", "p", "a", "r">>,
    <<"o", "r", "k">>,
    <<"o", "r", "k", "s">>,
    <<"p", "a", "i", "n", "t">>,
    <<"u", "n", "o", "p", "e", "n", "e", "d">>,
    <<"n", "e", "c", "r", "o", "n">>,
    <<"z", "z", "z">> }

\* every non-empty prefix of every stage label, as written, in lower case
\* and in upper case
StageTokens ==
    LET prefixes == UNION { { SubSeq(StageChoices[i].label, 1, k) :
                              k \in 1..Len(StageChoices[i].label) } :
                            i \in 1..Len(StageChoices) }
    IN prefixes \cup { Lower(p) : p \in prefixes }
                \cup { [i \in 1..Len(p) |-> UpperChar(p[i])] : p \in prefixes }

\* every unit type as written and in lower case
UnitTypeTokens == Range(UnitTypes) \cup { Lower(t) : t \in Range(UnitTypes) }

\* the empty token, plurals of unit names, a token two Categories contain,
\* parts of unit type names, a unit type in upper case, a Tag name in another
\* letter case and a part of it, a part of a Kit name
ProbeTokens == {
    << >>,
    <<"n", "e", "c", "r", "o", "n", "s">>,
    <<"g", "r", "o", "t", "s">>,
    <<"w", "a", "r", "r", "i", "o", "r", "s">>,
    <<"o", "r">>,
    <<"i", "n", "f", "a", "n">>,
    <<"e", "p", "i", "c">>,
    <<"I", "N", "F", "A", "N", "T", "R", "Y">>,
    <<"E", "l", "i", "t", "e">>,
    <<"e", "l", "i">>,
    <<"o", "x">> }

\* every token a search is given
Tokens ==
    Vocabulary \cup StageTokens \cup UnitTypeTokens \cup ProbeTokens
        \cup UNION { Range(parse_search_string(q)) : q \in Queries }

\* The values wide_db_search appends to terms: a str (tag.name, kit.name, the
\* token), a Category or an int (the stage).  Two are equal (Python ==) iff they
\* have the same type and the same value.
StrTerm(s) == [type |-> "str", str |-> s, pk |-> 0]
CategoryTerm(c) == [type |-> "Category", str |-> << >>, pk |-> c]
IntTerm(n) == [type |-> "int", str |-> << >>, pk |-> n]

\* x in terms
InList(x, list) == \E i \in 1..Len(list) : list[i] = x

\* the truth value of an optional int: None and 0 are false
TruthyInt(o) == o # None /\ The(o) # 0

\* The if/elif chain of the loop body: the first test that succeeds, the term
\* its branch handles and the batches its branch collects.  The Category
\* branch collects get_category_batches of the term, which reads parent.
Dispatch(potential_tag) ==
    LET tag == get_tag_via_name(potential_tag)
        category == get_category_via_name(potential_tag)
        stage == get_stage_via_name(potential_tag)
        kit == get_kit_via_name(potential_tag)
    IN
    IF tag # None
    THEN [via |-> "Tag", term |-> StrTerm(TagTable[The(tag)].name),
          batches |-> Some(get_tagged_batches(The(tag)))]
    ELSE IF category # None
    THEN [via |-> "Category", term |-> CategoryTerm(The(category)), batches |-> None]
    ELSE IF TruthyInt(stage)
    THEN [via |-> "Stage", term |-> IntTerm(The(stage)),
          batches |-> Some(get_batches_of_stage(The(stage)))]
    ELSE IF has_unit_type_of_name(potential_tag)
    THEN [via |-> "UnitType", term |-> StrTerm(potential_tag),
          batches |-> Some(get_batches_of_unit_type(potential_tag))]
    ELSE IF has_units_of_name(potential_tag)
    THEN [via |-> "UnitName", term |-> StrTerm(potential_tag),
          batches |-> get_batches_with_unit_name(potential_tag)]
    ELSE IF kit # None
    THEN [via |-> "Kit", term |-> StrTerm(KitTable[The(kit)].name),
          batches |-> Some(get_batches_of_kit(The(kit)))]
    ELSE [via |-> "none", term |-> StrTerm(<< >>), batches |-> Some(<< >>)]

\* Dispatch of every input token (it reads the stored tables only)
DispatchOf == [t \in Tokens |-> Dispatch(t)]

\* Resolve with the Kit branch testing `kit in terms` (the Kit, never equal to
\* a recorded name) instead of `kit.name in terms`
Resolve_KitNeverRepeats(trms, potential_tag) ==
    LET d == DispatchOf[potential_tag] IN
    IF d.via = "none"
    THEN [via |-> d.via, continue |-> FALSE, terms |-> trms, subsearch |-> {},
          raised |-> FALSE]
    ELSE IF d.via # "Kit" /\ InList(d.term, trms)
    THEN [via |-> d.via, continue |-> TRUE, terms |-> trms, subsearch |-> {},
          raised |-> FALSE]
    ELSE LET batches == IF d.via = "Category"
                        THEN Some(get_category_batches(d.term.pk))
                        ELSE d.batches
         IN [via |-> d.via, continue |-> FALSE, terms |-> Append(trms, d.term),
             subsearch |-> IF batches = None THEN {} ELSE Range(The(batches)),
             raised |-> batches = None]

\* The loop body up to line 97: no branch taken, or continue on a term already
\* in terms, or the term appended and subsearch set.  set(None) raises.
Resolve(trms, potential_tag) ==
    LET d == DispatchOf[potential_tag] IN
    IF d.via = "none"
    THEN [via |-> d.via, continue |-> FALSE, terms |-> trms, subsearch |-> {},
          raised |-> FALSE]
    ELSE IF InList(d.term, trms)
    THEN [via |-> d.via, continue |-> TRUE, terms |-> trms, subsearch |-> {},
          raised |-> FALSE]
    ELSE LET batches == IF d.via = "Category"
                        THEN Some(get_category_batches(d.term.pk))
                        ELSE d.batches
         IN [via |-> d.via, continue |-> FALSE, terms |-> Append(trms, d.term),
             subsearch |-> IF batches = None THEN {} ELSE Range(The(batches)),
             raised |-> batches = None]

\* Narrow with the union taken in the last branch too
Narrow_Union(out, subsearch) ==
    IF Cardinality(subsearch) = 0
    THEN out
    ELSE out \cup subsearch

\* lines 99-107: skip an empty subsearch, seed an empty output_set, else intersect
Narrow(out, subsearch) ==
    IF Cardinality(subsearch) = 0
    THEN out
    ELSE IF Cardinality(out) = 0
    THEN out \cup subsearch
    ELSE out \cap subsearch

\* one iteration of the for loop; st holds output_set, terms and whether an
\* exception has been raised (which ends the function)
LoopBody(st, potential_tag) ==
    IF st.raised
    THEN st
    ELSE LET r == Resolve(st.terms, potential_tag) IN
         IF r.continue
         THEN st
         ELSE IF r.raised
         THEN [output_set |-> st.output_set, terms |-> r.terms, raised |-> TRUE]
         ELSE [output_set |-> Narrow(st.output_set, r.subsearch),
               terms |-> r.terms, raised |-> FALSE]

RECURSIVE ForLoop(_, _)
ForLoop(st, tokens) ==
    IF tokens = << >> THEN st ELSE ForLoop(LoopBody(st, Head(tokens)), Tail(tokens))

\* wide_db_search: the returned list (as a set) and terms
wide_db_search(tokens) ==
    ForLoop([output_set |-> {}, terms |-> << >>, raised |-> FALSE], tokens)

-----------------------------------------------------------------------------
(* BatchIndexFunc and its copy of wide_db_search (views.py) *)

\* The if/elif chain of the copy in views.py.  Its Tag, Category and stage
\* branches are those of searches.py; then it tries the Kit, and then calls
\* Unit.get_unit_type_via_name, which Unit does not define: AttributeError.
views_Dispatch(potential_tag) ==
    LET d == Dispatch(potential_tag)
        kit == get_kit_via_name(potential_tag)
    IN IF d.via \in { "Tag", "Category", "Stage" }
       THEN d
       ELSE IF kit # None
       THEN [via |-> "Kit", term |-> StrTerm(KitTable[The(kit)].name),
             batches |-> Some(get_batches_of_kit(The(kit)))]
       ELSE [via |-> "AttributeError", term |-> StrTerm(<< >>), batches |-> None]

\* one iteration of the for loop of the copy in views.py
views_LoopBody(st, d) ==
    IF st.raised
    THEN st
    ELSE IF d.via = "AttributeError"
    THEN [output_set |-> st.output_set, terms |-> st.terms, raised |-> TRUE]
    ELSE IF InList(d.term, st.terms)
    THEN st
    ELSE [output_set |->
              Narrow(st.output_set,
                     Range(IF d.via = "Category"
                           THEN get_category_batches(d.term.pk)
                           ELSE The(d.batches))),
          terms |-> Append(st.terms, d.term),
          raised |-> FALSE]

RECURSIVE views_ForLoop(_, _)
views_ForLoop(st, tokens) ==
    IF tokens = << >>
    THEN st
    ELSE views_ForLoop(views_LoopBody(st, views_Dispatch(Head(tokens))), Tail(tokens))

\* wide_db_search of views.py, the one BatchIndexFunc calls
views_wide_db_search(tokens) ==
    views_ForLoop([output_set |-> {}, terms |-> << >>, raised |-> FALSE], tokens)

\* list(a set of batches), list(Batch.objects.all()): by primary key
RECURSIVE ListOf(_)
ListOf(batches) ==
    IF batches = {}
    THEN << >>
    ELSE LET least == CHOOSE b \in batches : \A c \in batches : b <= c
         IN << least >> \o ListOf(batches \ {least})

\* Batch.__lt__ raises TypeError when an edit_date is None
LtRaises(list, dates) ==
    Len(list) >= 2 /\ \E i \in 1..Len(list) : dates[list[i]] = None

\* list.sort(reverse=True) with Batch.__lt__: latest edit_date first, batches
\* with equal edit_date in the order they had
SortReverse(list, dates) ==
    LET Place(i) ==
            1 + Cardinality({ j \in 1..Len(list) :
                                The(dates[list[j]]) > The(dates[list[i]]) })
              + Cardinality({ j \in 1..(i - 1) : dates[list[j]] = dates[list[i]] })
    IN IF Len(list) < 2
       THEN list
       ELSE [k \in 1..Len(list) |-> list[CHOOSE i \in 1..Len(list) : Place(i) = k]]

\* BatchIndexFunc up to the context it renders (results_points left out);
\* search_list is None where the code leaves search_phrases as it was given
BatchIndexFuncBody(raw, dates) ==
    LET valid == views_is_valid_search_string(raw)
        search_list == IF valid THEN views_parse_search_string(The(raw)) ELSE << >>
        search_results == IF valid
                          THEN views_wide_db_search(search_list)
                          ELSE [output_set |-> Batches, terms |-> << >>,
                                raised |-> FALSE]
        unsorted == ListOf(search_results.output_set)
    IN IF search_results.raised \/ LtRaises(unsorted, dates)
       THEN [raised |-> TRUE, resolved |-> valid, context |-> None]
       ELSE [raised |-> FALSE, resolved |-> valid,
             context |-> Some([search_list |-> IF valid THEN Some(search_list) ELSE None,
                               batch_list |-> SortReverse(unsorted, dates),
                               search_hits |-> search_results.terms])]

-----------------------------------------------------------------------------
(* Batch (models.py) *)

\* Kit.acqu_date of every stored Kit
KitAcquDates == << 1, 2, 3 >>

Digits == << "1", "2", "3", "4", "5", "6", "7", "8", "9" >>

\* Batch.objects.filter(unit_id=self.unit_id).order_by('kit_id__acqu_date')
BatchesOfUnitByAcquDate(unit) ==
    LET rows == { b \in Batches : BatchTable[b].unit_id = unit }
        Place(b) == 1 + Cardinality({ c \in rows :
                          KitAcquDates[BatchTable[c].kit_id]
                              < KitAcquDates[BatchTable[b].kit_id] })
    IN [k \in 1..Cardinality(rows) |-> CHOOSE b \in rows : Place(b) = k]

\* Batch.__str__: the unit's name, followed by the batch's number among the
\* batches of the unit when there are several
Batch_str(b) ==
    LET s == UnitTable[BatchTable[b].unit_id].name
        collection == BatchesOfUnitByAcquDate(BatchTable[b].unit_id)
    IN IF Len(collection) > 1
       THEN s \o << " " >>
              \o << Digits[CHOOSE k \in 1..Len(collection) : collection[k] = b] >>
       ELSE s

\* Batch.get_stage_string: Batch.Stage.choices[self.stage][1], None on
\* IndexError.  A list index below 0 counts from the end of the list, and
\* raises IndexError only below -len(list)
get_stage_string(stage) ==
    LET choices == StageChoices
        n == Len(choices)
    IN IF 0 <= stage /\ stage < n
       THEN Some(choices[stage + 1].label)
       ELSE IF -n <= stage /\ stage < 0
            THEN Some(choices[n + stage + 1].label)
            ELSE None

-----------------------------------------------------------------------------
(* Storage (models.py) *)

\* Storage.Capacity
Capacity == [EMPTY |-> 0, PARTIALY_FULL |-> 1, HALF_FULL |-> 2, MOSTLY_FULL |-> 3,
             FULL |-> 4]

\* the default of the field current_cap
DefaultCap == 0

\* the default of the field stage of Batch: Stage.UNOPENED
DefaultStage == 0

\* Storage.is_capacity_in_bounds
is_capacity_in_bounds(cap) == Capacity.EMPTY <= cap /\ cap <= Capacity.FULL

\* Storage.can_increment_capacity
can_increment_capacity(cap) == 0 <= cap /\ cap < 4

\* can_decrement_capacity that also allows EMPTY
can_decrement_capacity_AtEmpty(cap) == 0 <= cap /\ cap <= 4

\* Storage.can_decrement_capacity
can_decrement_capacity(cap) == 0 < cap /\ cap <= 4

\* increment_capacity without the test of can_increment_capacity
increment_capacity_Unguarded(cap) ==
    IF ~is_capacity_in_bounds(cap)
    THEN [current_cap |-> cap,
          error |-> Some("Cannot increment capacity: current_cap is out of bounds")]
    ELSE [current_cap |-> cap + 1, error |-> None]

\* Storage.increment_capacity: the new current_cap, and the message of the
\* ValueError when it raises
increment_capacity(cap) ==
    IF ~is_capacity_in_bounds(cap)
    THEN [current_cap |-> cap,
          error |-> Some("Cannot increment capacity: current_cap is out of bounds")]
    ELSE [current_cap |-> IF can_increment_capacity(cap) THEN cap + 1 ELSE cap,
          error |-> None]

\* decrement_capacity without the test of is_capacity_in_bounds
decrement_capacity_Unchecked(cap) ==
    [current_cap |-> IF can_decrement_capacity(cap) THEN cap - 1 ELSE cap,
     error |-> None]

\* Storage.decrement_capacity: the new current_cap, and the message of the
\* ValueError when it raises
decrement_capacity(cap) ==
    IF ~is_capacity_in_bounds(cap)
    THEN [current_cap |-> cap,
          error |-> Some("Cannot decrement capacity: current_cap is out of bounds")]
    ELSE [current_cap |-> IF can_decrement_capacity(cap) THEN cap - 1 ELSE cap,
          error |-> None]

-----------------------------------------------------------------------------
(* Inputs *)

\* the longest token list wide_db_search is given
MaxTerms == 3

SeqsUpTo(S, n) == UNION { [1..k -> S] : k \in 0..n }

\* the arguments of wide_db_search
SearchInputs == SeqsUpTo(Vocabulary, MaxTerms) \cup { << t >> : t \in Tokens }

\* every parent relation, loops included: save() stores what it is given
ParentMaps == [Categories -> {None} \cup { Some(c) : c \in Categories }]

\* no Category has a parent
NoParents == [c \in Categories |-> None]

\* the values of Storage.location
Locations == { "Garage Shelf", "Bedroom Closet Shelf", "Attic" }

StoredLocation == "Garage Shelf"

\* the days timezone.now().date() returns
Days == { 1, 2 }

\* the largest stored stage ordinal, of either sign
MaxStage == 60

\* the values of the integer field stage: save() does not check choices
StageValues == (-MaxStage)..MaxStage

\* how far outside Storage.Capacity a stored current_cap lies at most
MaxOutOfBounds == 2

\* the values of the integer field current_cap: save() does not check choices
CapValues == (Capacity.EMPTY - MaxOutOfBounds)..(Capacity.FULL + MaxOutOfBounds)

\* the longest raw string made of RawChars
MaxRaw == 4

\* a letter, the separators, the underscore and two characters that are
\* stripped only
RawChars == { "a", " ", "_", "<", ">", ",", "?" }

\* n letters
Filler(n) == [i \in 1..n |-> "a"]

\* n times the character c
Padding(c, n) == [i \in 1..n |-> c]

\* the raw strings given to the string functions: the short ones, and strings
\* that reach and pass MAX_STRING characters
RawStrings ==
    SeqsUpTo(RawChars, MaxRaw)
        \cup { Filler(n) \o tail : n \in { MAX_STRING - 1, MAX_STRING },
                                   tail \in SeqsUpTo(RawChars, 2) }
        \cup { Padding(c, n) \o tail : c \in { " ", "?" },
                                       n \in { MAX_STRING - 1, MAX_STRING },
                                       tail \in SeqsUpTo(RawChars, 2) }

\* the values of request.GET.get('search'): no parameter (None), strings
\* without a letter, and the queries
SearchParams ==
    {None} \cup { Some(q) : q \in Queries }
           \cup { Some(raw) : raw \in { << >>, << " ", " " >>, << ">", "?", "<" >>,
                                        << ";", "_", ";" >>, << "." >>,
                                        << " ", ".", ",", "-", "_" >> } }

\* Batch.edit_date: all days different, days shared, one None, all None (the
\* field's default)
StoredEditDates == << Some(5), Some(4), Some(3), Some(2), Some(1) >>

EditDateMaps == {
    StoredEditDates,
    << Some(1), Some(2), Some(1), Some(2), Some(2) >>,
    << Some(1), None, Some(1), Some(2), Some(3) >>,
    << None, None, None, None, None >> }

-----------------------------------------------------------------------------
(* Specification *)

\* no call running, over the given parent relations, edit dates and capacities
InitOf(parents, dates, caps, stages) ==
    /\ parent \in parents
    /\ edit_date \in dates
    /\ search_phrases = None
    /\ context = None
    /\ pc = "idle"
    /\ op = "none"
    /\ self = None
    /\ visited = << >>
    /\ next_node_ptr = None
    /\ frames = << >>
    /\ categories_stack = << >>
    /\ batch_list = << >>
    /\ popped = << >>
    /\ result = None
    /\ search_terms = << >>
    /\ output_set = {}
    /\ terms = << >>
    /\ raised = FALSE
    /\ current_cap \in caps
    /\ batch_stage \in stages
    /\ location = StoredLocation
    /\ last_moved = None
    /\ error_message = None

\* the Storage and the Batch are as their constructors make them
InitWith(parents, dates) == InitOf(parents, dates, {DefaultCap}, {DefaultStage})

Init == InitWith(ParentMaps, {StoredEditDates})

\* the string functions read no table
StringInit == InitWith({NoParents}, {StoredEditDates})

ViewInit == InitWith(ParentMaps, EditDateMaps)

WideDbSearch(tokens) ==
    /\ pc = "idle"
    /\ op' = "wide_db_search"
    /\ search_terms' = tokens
    /\ \E r \in { wide_db_search(tokens) } :
        /\ output_set' = r.output_set
        /\ terms' = r.terms
        /\ raised' = r.raised
    /\ pc' = "done"
    /\ UNCHANGED << parent, self, visited, next_node_ptr, frames,
                    categories_stack, batch_list, popped, result, viewVars,
                    objectVars >>

IsCategorySafe == \E c \in Categories : IsCategorySafeCall(c)
GetCascadingCategory == \E c \in Categories : GetCascadingCategoryCall(c)
GetCategoryBatches == \E c \in Categories : GetCategoryBatchesCall(c)
\* is_valid_search_string (searches.py)
IsValidSearchString(raw) ==
    /\ op' = "is_valid_search_string"
    /\ search_phrases' = raw
    /\ result' = Some(is_valid_search_string(raw))
    /\ pc' = "done"
    /\ UNCHANGED << parent, self, visited, next_node_ptr, frames,
                    categories_stack, batch_list, popped, searchVars,
                    edit_date, context, objectVars >>

\* is_valid_search_string (views.py)
ViewsIsValidSearchString(raw) ==
    /\ op' = "views.is_valid_search_string"
    /\ search_phrases' = raw
    /\ result' = Some(views_is_valid_search_string(raw))
    /\ pc' = "done"
    /\ UNCHANGED << parent, self, visited, next_node_ptr, frames,
                    categories_stack, batch_list, popped, searchVars,
                    edit_date, context, objectVars >>

\* parse_search_string (searches.py)
ParseSearchString(raw) ==
    /\ op' = "parse_search_string"
    /\ search_phrases' = Some(raw)
    /\ result' = Some(parse_search_string(raw))
    /\ pc' = "done"
    /\ UNCHANGED << parent, self, visited, next_node_ptr, frames,
                    categories_stack, batch_list, popped, searchVars,
                    edit_date, context, objectVars >>

\* a query tokenized by parse_search_string and resolved by wide_db_search
\* (both of searches.py)
SearchQuery(raw) ==
    /\ op' = "search_query"
    /\ search_phrases' = Some(raw)
    /\ \E r \in { wide_db_search(parse_search_string(raw)) } :
        /\ search_terms' = parse_search_string(raw)
        /\ output_set' = r.output_set
        /\ terms' = r.terms
        /\ raised' = r.raised
    /\ pc' = "done"
    /\ UNCHANGED << parent, self, visited, next_node_ptr, frames,
                    categories_stack, batch_list, popped, result,
                    edit_date, context, objectVars >>

\* BatchIndexFunc (views.py); ret is what is_valid_search_string answered
BatchIndexFunc(raw) ==
    /\ op' = "BatchIndexFunc"
    /\ search_phrases' = raw
    /\ \E r \in { BatchIndexFuncBody(raw, edit_date) } :
        /\ result' = Some(r.resolved)
        /\ raised' = r.raised
        /\ context' = r.context
    /\ pc' = "done"
    /\ UNCHANGED << parent, self, visited, next_node_ptr, frames,
                    categories_stack, batch_list, popped, search_terms,
                    output_set, terms, edit_date,
                    objectVars >>

\* Storage.increment_capacity
IncrementCapacity ==
    /\ pc = "idle"
    /\ op' = "increment_capacity"
    /\ \E r \in { increment_capacity(current_cap) } :
        /\ current_cap' = r.current_cap
        /\ error_message' = r.error
        /\ raised' = (r.error # None)
    /\ result' = None
    /\ UNCHANGED << parent, pc, self, visited, next_node_ptr, frames,
                    categories_stack, batch_list, popped, search_terms,
                    output_set, terms, viewVars, location, last_moved,
                    batch_stage >>

\* Storage.decrement_capacity
DecrementCapacity ==
    /\ pc = "idle"
    /\ op' = "decrement_capacity"
    /\ \E r \in { decrement_capacity(current_cap) } :
        /\ current_cap' = r.current_cap
        /\ error_message' = r.error
        /\ raised' = (r.error # None)
    /\ result' = None
    /\ UNCHANGED << parent, pc, self, visited, next_node_ptr, frames,
                    categories_stack, batch_list, popped, search_terms,
                    output_set, terms, viewVars, location, last_moved,
                    batch_stage >>

\* Storage.can_increment_capacity
CanIncrementCapacity ==
    /\ pc = "idle"
    /\ op' = "can_increment_capacity"
    /\ result' = Some(can_increment_capacity(current_cap))
    /\ raised' = FALSE
    /\ error_message' = None
    /\ UNCHANGED << parent, pc, self, visited, next_node_ptr, frames,
                    categories_stack, batch_list, popped, search_terms,
                    output_set, terms, viewVars, current_cap, location,
                    last_moved, batch_stage >>

\* Storage.can_decrement_capacity
CanDecrementCapacity ==
    /\ pc = "idle"
    /\ op' = "can_decrement_capacity"
    /\ result' = Some(can_decrement_capacity(current_cap))
    /\ raised' = FALSE
    /\ error_message' = None
    /\ UNCHANGED << parent, pc, self, visited, next_node_ptr, frames,
                    categories_stack, batch_list, popped, search_terms,
                    output_set, terms, viewVars, current_cap, location,
                    last_moved, batch_stage >>

\* Storage.move_container; today is timezone.now().date()
MoveContainer(newLocation, today) ==
    /\ pc = "idle"
    /\ op' = "move_container"
    /\ location' = newLocation
    /\ last_moved' = Some(today)
    /\ result' = None
    /\ raised' = FALSE
    /\ error_message' = None
    /\ UNCHANGED << parent, pc, self, visited, next_node_ptr, frames,
                    categories_stack, batch_list, popped, search_terms,
                    output_set, terms, viewVars, current_cap,
                    batch_stage >>

MoveContainerCall == \E newLocation \in Locations, today \in Days :
                        MoveContainer(newLocation, today)

\* c.parent = p; c.save().  Category does not override save() and no signal
\* receiver is registered for Category: Model.save() writes the row without
\* calling clean()
CategorySave(c, p) ==
    /\ pc = "idle"
    /\ op' = "Category.save"
    /\ self' = Some(c)
    /\ parent' = [parent EXCEPT ![c] = p]
    /\ raised' = FALSE
    /\ error_message' = None
    /\ UNCHANGED << pc, visited, next_node_ptr, frames, categories_stack,
                    batch_list, popped, result, search_terms, output_set, terms,
                    viewVars, current_cap, location, last_moved,
                    batch_stage >>

\* c.parent = p; c.clean(); c.save(), what a model form does.  clean() walks
\* from the unsaved p along the stored parents; the row is written only when
\* clean() did not raise
CategoryCleanSave(c, p) ==
    /\ pc = "idle"
    /\ op' = "Category.clean"
    /\ self' = Some(c)
    /\ IF ~SafeWalk(<< c >>, p)
       THEN /\ raised' = TRUE
            /\ error_message' = Some("A category's hierarchy cannot form a loop.")
            /\ UNCHANGED parent
       ELSE /\ raised' = FALSE
            /\ error_message' = None
            /\ parent' = [parent EXCEPT ![c] = p]
    /\ UNCHANGED << pc, visited, next_node_ptr, frames, categories_stack,
                    batch_list, popped, result, search_terms, output_set, terms,
                    viewVars, current_cap, location, last_moved,
                    batch_stage >>

CategorySaveCall ==
    \E c \in Categories, p \in {None} \cup { Some(d) : d \in Categories } :
        CategorySave(c, p)

CategoryCleanSaveCall ==
    \E c \in Categories, p \in {None} \cup { Some(d) : d \in Categories } :
        CategoryCleanSave(c, p)

\* Batch.get_stage_string
GetStageString ==
    /\ pc = "idle"
    /\ op' = "get_stage_string"
    /\ result' = Some(get_stage_string(batch_stage))
    /\ raised' = FALSE
    /\ pc' = "done"
    /\ UNCHANGED << parent, self, visited, next_node_ptr, frames,
                    categories_stack, batch_list, popped, search_terms,
                    output_set, terms, viewVars, objectVars >>

IsValid ==
    /\ pc = "idle"
    /\ \E raw \in {None} \cup { Some(s) : s \in RawStrings } :
          IsValidSearchString(raw)

ViewsIsValid ==
    /\ pc = "idle"
    /\ \E raw \in {None} \cup { Some(s) : s \in RawStrings } :
          ViewsIsValidSearchString(raw)

Parse ==
    /\ pc = "idle"
    /\ \E raw \in RawStrings : ParseSearchString(raw)

Query ==
    /\ pc = "idle"
    /\ \E raw \in Queries : SearchQuery(raw)

BatchIndex ==
    /\ pc = "idle"
    /\ \E raw \in SearchParams : BatchIndexFunc(raw)

Search ==
    /\ pc = "idle"
    /\ \E tokens \in SearchInputs : WideDbSearch(tokens)

TreeNext ==
    \/ IsCategorySafe
    \/ IsCategorySafeWhile
    \/ GetCascadingCategory
    \/ GetCascadingCategoryEnter
    \/ GetCascadingCategoryReturn
    \/ GetCategoryBatches
    \/ GetCategoryBatchesWhile

Next ==
    \/ Search
    \/ TreeNext

Spec == Init /\ [][Next]_vars

\* the tree operations alone; a started call keeps running until it returns
TreeSpec == Init /\ [][TreeNext]_vars /\ WF_vars(TreeNext)

StringNext ==
    \/ IsValid
    \/ ViewsIsValid
    \/ Parse

\* the string functions on raw strings
StringSpec == StringInit /\ [][StringNext]_vars

StorageNext ==
    \/ IncrementCapacity
    \/ DecrementCapacity
    \/ CanIncrementCapacity
    \/ CanDecrementCapacity
    \/ MoveContainerCall

\* a Storage with a current_cap in Storage.Capacity
StorageInit ==
    InitOf({NoParents}, {StoredEditDates}, Capacity.EMPTY..Capacity.FULL,
           {DefaultStage})

\* the calls on a Storage whose current_cap is in bounds
StorageSpec == StorageInit /\ [][StorageNext]_vars

\* a Storage with any current_cap
AnyStorageInit ==
    InitOf({NoParents}, {StoredEditDates}, CapValues, {DefaultStage})

\* the calls on a Storage with any current_cap
AnyStorageSpec == AnyStorageInit /\ [][StorageNext]_vars

\* a Batch with any stage ordinal
StageInit == InitOf({NoParents}, {StoredEditDates}, {DefaultCap}, StageValues)

\* get_stage_string on a Batch with any stage ordinal
StageSpec == StageInit /\ [][GetStageString]_vars

SaveNext ==
    \/ CategorySaveCall
    \/ CategoryCleanSaveCall

\* the saves of Categories, from a store where no Category has a parent
SaveSpec == StringInit /\ [][SaveNext]_vars

ViewNext ==
    \/ Query
    \/ BatchIndex

\* the queries against the stored tables, on every edit_date
ViewSpec == ViewInit /\ [][ViewNext]_vars

-----------------------------------------------------------------------------
(* Properties of wide_db_search *)

SearchDone == pc = "done" /\ op = "wide_db_search"

\* the state of the loop when it reaches the i-th token of tokens
Before(tokens, i) == wide_db_search(SubSeq(tokens, 1, i - 1))

\* what the loop body finds for the i-th token of tokens
ResolvedAt(tokens, i) == Resolve(Before(tokens, i).terms, tokens[i])

\* the positions of tokens whose subsearch is not empty
Productive(tokens) ==
    { i \in 1..Len(tokens) : ResolvedAt(tokens, i).subsearch # {} }

RECURSIVE Intersection(_)
Intersection(sets) ==
    IF Cardinality(sets) = 1
    THEN The(sets)
    ELSE LET s == The(sets) IN s \cap Intersection(sets \ {s})

\* C1: the result of wide_db_search is the intersection of the non-empty
\* result sets of its tokens (and is empty when no token has one), also when
\* an intermediate intersection is empty and productive tokens follow.
C1_AndAcrossTokens ==
    SearchDone =>
        LET hits == { ResolvedAt(search_terms, i).subsearch :
                      i \in Productive(search_terms) }
        IN output_set = IF hits = {} THEN {} ELSE Intersection(hits)

\* the term and the result set a token has when it is the only token
TermAlone(t) == Resolve(<< >>, t).terms
HitsAlone(t) == Resolve(<< >>, t).subsearch

\* the reorderings of a token list
Reorderings(tokens) ==
    { [i \in 1..Len(tokens) |-> tokens[f[i]]] :
      f \in { g \in [1..Len(tokens) -> 1..Len(tokens)] :
               \A i, j \in 1..Len(tokens) : g[i] = g[j] => i = j } }

\* C2: when every token of the list has a non-empty result set and the
\* tokens' terms are pairwise distinct, every reordering of the list returns
\* the same result set.
C2_OrderInsensitive ==
    (/\ SearchDone
     /\ \A i \in 1..Len(search_terms) : HitsAlone(search_terms[i]) # {}
     /\ \A i, j \in 1..Len(search_terms) :
            i # j => TermAlone(search_terms[i]) # TermAlone(search_terms[j]))
    => \A reordered \in Reorderings(search_terms) :
            wide_db_search(reordered).output_set = output_set

\* the token list with token t put in front of position k
InsertAt(tokens, k, t) ==
    SubSeq(tokens, 1, k - 1) \o << t >> \o SubSeq(tokens, k, Len(tokens))

\* C3: a token whose result set is empty leaves the running result set as it
\* was, and putting such a token (one that matches no classifier, or whose
\* matched entity has no records) anywhere in the list does not change the
\* result set the search returns.
C3_MissesInert ==
    SearchDone =>
        /\ \A i \in 1..Len(search_terms) :
              ResolvedAt(search_terms, i).subsearch = {} =>
                  LoopBody(Before(search_terms, i), search_terms[i]).output_set
                      = Before(search_terms, i).output_set
        /\ \A t \in Vocabulary : \A k \in 1..(Len(search_terms) + 1) :
              HitsAlone(t) = {} =>
                  wide_db_search(InsertAt(search_terms, k, t)).output_set = output_set

\* the positions of tokens whose term was already in terms when the loop
\* reached them
Repeats(tokens) ==
    { i \in 1..Len(tokens) : ResolvedAt(tokens, i).continue }

\* C4: the term of every token that matched a classifier is in the returned
\* terms exactly once, however many tokens resolved to it; a token whose term
\* was already recorded leaves output_set and terms as they were; terms never
\* holds a term twice.
C4_DuplicateTerms ==
    SearchDone =>
        /\ \A i \in 1..Len(search_terms) :
              DispatchOf[search_terms[i]].via # "none" =>
                  Count(terms, DispatchOf[search_terms[i]].term) = 1
        /\ \A i \in Repeats(search_terms) :
              LoopBody(Before(search_terms, i), search_terms[i])
                  = Before(search_terms, i)
        /\ \A i, j \in 1..Len(terms) : terms[i] = terms[j] => i = j

\* two different tokens resolved to one term, and the search returned records
C4_Witness ==
    /\ SearchDone
    /\ Len(search_terms) = 2
    /\ search_terms[1] # search_terms[2]
    /\ Repeats(search_terms) = {2}
    /\ Len(terms) = 1
    /\ output_set # {}

\* The classifiers in the order Tag, Category, BuildStage, UnitType, UnitName,
\* Kit: the first that reports a match for the token, with its result set.
FirstMatch(t) ==
    IF get_tag_via_name(t) # None
    THEN [via |-> "Tag", hits |-> Range(get_tagged_batches(The(get_tag_via_name(t))))]
    ELSE IF get_category_via_name(t) # None
    THEN [via |-> "Category",
          hits |-> Range(get_category_batches(The(get_category_via_name(t))))]
    ELSE IF get_stage_via_name(t) # None
    THEN [via |-> "Stage",
          hits |-> Range(get_batches_of_stage(The(get_stage_via_name(t))))]
    ELSE IF has_unit_type_of_name(t)
    THEN [via |-> "UnitType", hits |-> Range(get_batches_of_unit_type(t))]
    ELSE IF has_units_of_name(t)
    THEN [via |-> "UnitName", hits |-> Range(The(get_batches_with_unit_name(t)))]
    ELSE IF get_kit_via_name(t) # None
    THEN [via |-> "Kit", hits |-> Range(get_batches_of_kit(The(get_kit_via_name(t))))]
    ELSE [via |-> "none", hits |-> {}]

\* C5: the result set of every token (that is not skipped as a repeat) is the
\* result set of the first classifier, in the order Tag, Category, BuildStage,
\* UnitType, UnitName, Kit, that matches it; no later classifier contributes.
C5_FirstMatchWins ==
    SearchDone =>
        \A i \in 1..Len(search_terms) :
            i \notin Repeats(search_terms) =>
                /\ ResolvedAt(search_terms, i).via = FirstMatch(search_terms[i]).via
                /\ ResolvedAt(search_terms, i).subsearch = FirstMatch(search_terms[i]).hits

\* the stages whose display string starts, letter case aside, with the token
StagesWithPrefix(t) ==
    { i \in 1..Len(StageChoices) : StartsWith(Lower(StageChoices[i].label), Lower(t)) }

\* C10: a single token of at least 4 characters that is a case-insensitive
\* prefix of a stage's display string and matches no Tag and no Category
\* resolves to exactly the batches at that stage, and the stage is the
\* recorded term; a token of fewer than 4 characters never resolves as a stage.
C10_StageResolution ==
    (SearchDone /\ Len(search_terms) = 1) =>
        LET t == search_terms[1] IN
        /\ (/\ Len(t) >= 4
            /\ StagesWithPrefix(t) # {}
            /\ get_tag_via_name(t) = None
            /\ get_category_via_name(t) = None)
           => \E i \in StagesWithPrefix(t) :
                /\ output_set = { b \in Batches :
                                   BatchTable[b].stage = StageChoices[i].value }
                /\ terms = << IntTerm(StageChoices[i].value) >>
        /\ Len(t) < 4 => ResolvedAt(search_terms, 1).via # "Stage"

-----------------------------------------------------------------------------
(* Properties of the Category tree operations *)

NumCategories == Cardinality(Categories)

\* the category k parent links above c, if the links go that far
RECURSIVE AncestorAt(_, _)
AncestorAt(c, k) ==
    IF k = 0
    THEN Some(c)
    ELSE LET below == AncestorAt(c, k - 1) IN
         IF below = None THEN None ELSE parent[The(below)]

\* following parent links from c reaches a category without parent
ReachesRoot(c) ==
    \E k \in 0..NumCategories :
        AncestorAt(c, k) # None /\ parent[The(AncestorAt(c, k))] = None

OnCycle(c) == \E k \in 1..NumCategories : AncestorAt(c, k) = Some(c)

LeadsIntoCycle(c) ==
    \E k \in 0..NumCategories :
        AncestorAt(c, k) # None /\ OnCycle(The(AncestorAt(c, k)))

Acyclic == \A c \in Categories : ~OnCycle(c)

NoRepeats(list) == \A i, j \in 1..Len(list) : list[i] = list[j] => i = j

IsCategorySafeDone == pc = "done" /\ op = "is_category_safe"
GetCascadingCategoryDone == pc = "done" /\ op = "get_cascading_category"
GetCategoryBatchesDone == pc = "done" /\ op = "get_category_batches"

\* C6: is_category_safe returns True iff the parent links from the node reach
\* a category without parent: True at every node when no category is on a
\* cycle, False at every node on a cycle or whose chain leads into one.
C6_IsCategorySafe ==
    IsCategorySafeDone =>
        /\ ret = ReachesRoot(The(self))
        /\ Acyclic => ret = TRUE
        /\ LeadsIntoCycle(The(self)) => ret = FALSE

\* is_category_safe returned False at a node that is on no cycle itself
C6_Witness ==
    /\ IsCategorySafeDone
    /\ ~OnCycle(The(self))
    /\ LeadsIntoCycle(The(self))
    /\ ret = FALSE

\* the loops and the recursion stay within the number of categories
TreeBounded ==
    /\ Len(visited) <= NumCategories + 1
    /\ Len(frames) <= NumCategories
    /\ Len(popped) <= NumCategories
    /\ NoRepeats(popped)

\* C7: on every parent relation, with loops or without, a call of
\* is_category_safe, get_cascading_category or get_category_batches at any
\* node returns; the traversal of get_category_batches pops each category at
\* most once, and no loop runs more often than there are categories.
C7_Terminates == []TreeBounded /\ <>(pc = "done")

\* get_category_batches returned after popping two categories while another
\* category is on a cycle
C7_Witness ==
    /\ GetCategoryBatchesDone
    /\ Len(popped) >= 2
    /\ \E c \in Categories : OnCycle(c)

\* the batches whose unit's category is root or has root on its parent chain
SubtreeRecords(root) ==
    { b \in Batches :
        \E k \in 0..NumCategories :
            AncestorAt(UnitTable[BatchTable[b].unit_id].category, k) = Some(root) }

\* C8 as claimed: get_category_batches(root) lists, each once, exactly the
\* batches of root and its descendants, and is empty if root is on a cycle.
C8_SubtreeUnlessOnCycle ==
    GetCategoryBatchesDone =>
        /\ NoRepeats(ret)
        /\ IF OnCycle(The(self))
           THEN ret = << >>
           ELSE Range(ret) = SubtreeRecords(The(self))

\* C8 as amended: get_category_batches(root) lists, each once, exactly the
\* batches of root and its descendants when is_category_safe(root) holds, and
\* is empty when it does not: root on a cycle, or its chain leading into one.
C8_SubtreeWhenSafe ==
    GetCategoryBatchesDone =>
        /\ NoRepeats(ret)
        /\ IF ReachesRoot(The(self))
           THEN Range(ret) = SubtreeRecords(The(self))
           ELSE ret = << >>

\* get_category_batches returned the batches of a root with all other
\* categories below it
C8_Witness ==
    /\ GetCategoryBatchesDone
    /\ Len(popped) = NumCategories
    /\ Range(ret) = Batches

\* the number of parent links from c to its root
Depth(c) ==
    CHOOSE k \in 0..NumCategories :
        AncestorAt(c, k) # None /\ parent[The(AncestorAt(c, k))] = None

\* the names from the category k links above c down to c, joined by "/"
RECURSIVE PathName(_, _)
PathName(c, k) ==
    IF k = 0
    THEN CategoryTable[c].name
    ELSE CategoryTable[The(AncestorAt(c, k))].name \o << "/" >> \o PathName(c, k - 1)

\* C9: get_cascading_category returns the names from the root down to the
\* node joined by "/" when the node's parent chain ends at a root, and the
\* node's own name when is_category_safe is False for it.
C9_CascadingName ==
    GetCascadingCategoryDone =>
        ret = IF ReachesRoot(The(self))
              THEN PathName(The(self), Depth(The(self)))
              ELSE CategoryTable[The(self)].name

\* get_cascading_category returned the name of a node two links below its root
C9_Witness ==
    /\ GetCascadingCategoryDone
    /\ ReachesRoot(The(self))
    /\ Depth(The(self)) = 2
    /\ Len(ret) > Len(CategoryTable[The(self)].name)

-----------------------------------------------------------------------------
(* Properties of the pipeline as a whole *)

\* C11: wide_db_search returns a result set of stored batches and a list of
\* terms and raises no exception, for every token list (the empty token
\* included) and every parent relation: cyclic chains, a token that several
\* Categories or Kits contain, a Tag without assignments.
C11_NeverRaises ==
    SearchDone =>
        /\ ~raised
        /\ output_set \subseteq Batches
        /\ Len(terms) <= Len(search_terms)

\* a search returned over a cyclic parent relation: one token resolved to a
\* Category on a cycle, one to a Tag without assignments, and one token
\* matched no classifier
C11_Witness ==
    /\ SearchDone
    /\ ~raised
    /\ Len(search_terms) = 3
    /\ \E i \in 1..3 :
          /\ ResolvedAt(search_terms, i).via = "Category"
          /\ \E c \in Categories :
                /\ CategoryTerm(c) \in Range(terms)
                /\ OnCycle(c)
    /\ \E i \in 1..3 :
          /\ ResolvedAt(search_terms, i).via = "Tag"
          /\ ResolvedAt(search_terms, i).subsearch = {}
          /\ ~ResolvedAt(search_terms, i).continue
    /\ \E i \in 1..3 : ResolvedAt(search_terms, i).via = "none"

-----------------------------------------------------------------------------
(* Properties of the string functions *)

ParseSearchStringDone == pc = "done" /\ op = "parse_search_string"

\* the characters that separate terms
Separators == { " ", "<", ">", "," }

\* the part of a raw string that parse_search_string reads
Read(raw) ==
    IF Len(raw) > MAX_STRING THEN SubSeq(raw, 1, MAX_STRING) ELSE raw

\* the maximal stretches << a, b >> of s that hold no separator
Stretches(s) ==
    { st \in (1..Len(s)) \X (1..Len(s)) :
        /\ st[1] <= st[2]
        /\ \A i \in st[1]..st[2] : s[i] \notin Separators
        /\ st[1] = 1 \/ s[st[1] - 1] \in Separators
        /\ st[2] = Len(s) \/ s[st[2] + 1] \in Separators }

\* a stretch from its first to its last character outside the punctuation
\* class, every underscore written as a space
Core(s, st) ==
    LET keep == { i \in st[1]..st[2] : ~InChars(s[i], PUNCTIUATION_STRIP) }
    IN IF keep = {}
       THEN << >>
       ELSE LET first == CHOOSE i \in keep : \A j \in keep : i <= j
                last == CHOOSE i \in keep : \A j \in keep : j <= i
            IN [i \in 1..(last - first + 1) |->
                   IF s[first + i - 1] = "_" THEN " " ELSE s[first + i - 1]]

\* the non-empty cores of the stretches of s, from left to right
TermsOf(s) ==
    LET good == { st \in Stretches(s) : Core(s, st) # << >> }
    IN [k \in 1..Cardinality(good) |->
           Core(s, CHOOSE st \in good :
                       Cardinality({ u \in good : u[1] < st[1] }) = k - 1)]

\* C12: every token parse_search_string returns is non-empty, holds no comma,
\* "<", ">" or underscore, and neither starts nor ends with a character of the
\* punctuation class; the tokens are, from left to right, the stretches of the
\* input between spaces, "<", ">" and commas, with their underscores turned
\* into spaces, and the stretches without a term dropped.
C12_TokenShape ==
    ParseSearchStringDone =>
        /\ \A i \in 1..Len(ret) :
              /\ ret[i] # << >>
              /\ \A k \in 1..Len(ret[i]) : ret[i][k] \notin { ",", "<", ">", "_" }
              /\ ~InChars(ret[i][1], PUNCTIUATION_STRIP)
              /\ ~InChars(ret[i][Len(ret[i])], PUNCTIUATION_STRIP)
        /\ ret = TermsOf(Read(The(search_phrases)))

\* parse_search_string returned one token with a space that was an
\* underscore, from a string that starts with a stripped character
C12_Witness ==
    /\ ParseSearchStringDone
    /\ Len(The(search_phrases)) = 4
    /\ The(search_phrases)[1] = "?"
    /\ ret = << << "a", " ", "a" >> >>

IsValidSearchStringDone ==
    pc = "done" /\ op \in { "is_valid_search_string", "views.is_valid_search_string" }

\* raw holds a character outside the punctuation class
HasTermCharacter(raw) ==
    \E i \in 1..Len(raw) : ~InChars(raw[i], PUNCTIUATION_STRIP)

\* C13: is_valid_search_string answers False for None, and otherwise True
\* exactly when the string holds a character outside the punctuation class
\* (space and the listed punctuation, underscore included); this is stated
\* of the function in searches.py and of the one in views.py.
C13_ValidityPredicate ==
    IsValidSearchStringDone =>
        ret = (search_phrases # None /\ HasTermCharacter(The(search_phrases)))

-----------------------------------------------------------------------------
(* Properties of the queries against the stored tables *)

SearchQueryDone == pc = "done" /\ op = "search_query"

\* the batches of the scenario: R1 is a batch of "Necron Warriors" at stage
\* Painting tagged "elite", R2 a batch of "Necron Warriors" at stage Unopened
\* without a tag
ScenarioR1 ==
    { b \in Batches :
        /\ UnitTable[BatchTable[b].unit_id].name = << "N", "e", "c", "r", "o", "n", " ", "W", "a", "r", "r", "i", "o", "r", "s" >>
        /\ BatchTable[b].stage = 4
        /\ \E a \in 1..Len(TagAssignmentTable) :
              /\ TagAssignmentTable[a].batch_id = b
              /\ TagTable[TagAssignmentTable[a].tag_id].name = << "e", "l", "i", "t", "e" >> }

ScenarioR2 ==
    { b \in Batches :
        /\ UnitTable[BatchTable[b].unit_id].name = << "N", "e", "c", "r", "o", "n", " ", "W", "a", "r", "r", "i", "o", "r", "s" >>
        /\ BatchTable[b].stage = 0
        /\ \A a \in 1..Len(TagAssignmentTable) : TagAssignmentTable[a].batch_id # b }

\* C14: with R1 and R2 stored, "necron painting" tokenized and resolved
\* returns R1 only, "necron" alone returns R1 and R2, and "elite painting"
\* returns R1 only.
C14_Scenario ==
    SearchQueryDone =>
        /\ Cardinality(ScenarioR1) = 1 /\ Cardinality(ScenarioR2) = 1
        /\ search_phrases = Some(<< "n", "e", "c", "r", "o", "n", " ", "p", "a", "i", "n", "t", "i", "n", "g" >>)
              => output_set = ScenarioR1
        /\ search_phrases = Some(<< "n", "e", "c", "r", "o", "n" >>)
              => output_set = ScenarioR1 \cup ScenarioR2
        /\ search_phrases = Some(<< "e", "l", "i", "t", "e", " ", "p", "a", "i", "n", "t", "i", "n", "g" >>)
              => output_set = ScenarioR1

\* "necron painting" was tokenized into two tokens and resolved to one batch
C14_Witness ==
    /\ SearchQueryDone
    /\ search_phrases = Some(<< "n", "e", "c", "r", "o", "n", " ", "p", "a", "i", "n", "t", "i", "n", "g" >>)
    /\ Len(search_terms) = 2
    /\ Len(terms) = 2
    /\ Cardinality(output_set) = 1
    /\ ~raised

BatchIndexFuncDone == pc = "done" /\ op = "BatchIndexFunc"

\* C15: when the raw query is None, empty, or holds only characters of the
\* punctuation class, BatchIndexFunc does not run the resolver, raises nothing,
\* and renders every stored batch with an empty list of matched terms.
C15_InvalidFallback ==
    (/\ BatchIndexFuncDone
     /\ search_phrases = None \/ ~HasTermCharacter(The(search_phrases)))
    => /\ ret = FALSE
       /\ ~raised
       /\ context # None
       /\ Range(The(context).batch_list) = Batches
       /\ The(context).search_hits = << >>

-----------------------------------------------------------------------------
(* Properties of the classifiers *)

\* the positions of tokens at which the loop appended a term
Appending(tokens) ==
    { i \in 1..Len(tokens) :
        /\ ResolvedAt(tokens, i).via # "none"
        /\ ~ResolvedAt(tokens, i).continue }

\* C16: every term in the returned terms was appended for a token whose
\* result set was not empty; a token whose matched entity has no records (a
\* Tag without assignments, a Category with an empty or unsafe subtree, a
\* stage or unit type without records) adds no term.
C16_TermsContributed ==
    SearchDone =>
        \A i \in Appending(search_terms) :
            ResolvedAt(search_terms, i).subsearch # {}

\* the unit types whose name is the token, letter case aside
UnitTypesNamed(t) ==
    { i \in 1..Len(UnitTypes) : Lower(UnitTypes[i]) = Lower(t) }

\* C17: a single token that is the name of a unit type in any letter case, and
\* matches no Tag, no Category and no stage, resolves to exactly the batches
\* whose unit has that type; a token that is no unit type's whole name never
\* resolves as a unit type.
C17_UnitTypeResolution ==
    (SearchDone /\ Len(search_terms) = 1) =>
        LET t == search_terms[1] IN
        /\ (/\ UnitTypesNamed(t) # {}
            /\ get_tag_via_name(t) = None
            /\ get_category_via_name(t) = None
            /\ get_stage_via_name(t) = None)
           => \E i \in UnitTypesNamed(t) :
                output_set = { b \in Batches :
                                 UnitTable[BatchTable[b].unit_id].utype = UnitTypes[i] }
        /\ UnitTypesNamed(t) = {} => ResolvedAt(search_terms, 1).via # "UnitType"

\* the token without one trailing "s" or "S"
Singular(t) ==
    IF t # << >> /\ LowerChar(t[Len(t)]) = "s" THEN DropLast(t) ELSE t

\* the batches whose unit name contains the string, letter case aside
BatchesOfUnitsNamed(name) ==
    { b \in Batches : IContains(UnitTable[BatchTable[b].unit_id].name, name) }

\* the token reaches the UnitName classifier: it is no Tag, Category, stage or
\* unit type
ReachesUnitName(t) ==
    /\ get_tag_via_name(t) = None
    /\ get_category_via_name(t) = None
    /\ get_stage_via_name(t) = None
    /\ ~has_unit_type_of_name(t)

\* C18: a single non-empty token that reaches the UnitName classifier matches
\* it exactly when a unit name contains the token without its trailing "s",
\* letter case aside, and then resolves to exactly the batches of the units
\* whose name contains that trimmed token.
C18_UnitNameResolution ==
    (/\ SearchDone
     /\ Len(search_terms) = 1
     /\ search_terms[1] # << >>
     /\ ReachesUnitName(search_terms[1]))
    => LET hits == BatchesOfUnitsNamed(Singular(search_terms[1])) IN
       /\ ResolvedAt(search_terms, 1).via = "UnitName" <=> hits # {}
       /\ hits # {} => output_set = hits

\* the Categories whose name contains the token without its trailing "s",
\* letter case aside
CategoriesNamed(t) ==
    LET trimmed == IF t[Len(t)] = "s" THEN DropLast(t) ELSE t
    IN { c \in Categories : IContains(CategoryTable[c].name, trimmed) }

\* C19: a single non-empty token that is no Tag and that one or more Category
\* names contain resolves as a Category, to the first Category that contains
\* it, and the result is get_category_batches of that Category.
C19_CategoryResolution ==
    (/\ SearchDone
     /\ Len(search_terms) = 1
     /\ search_terms[1] # << >>
     /\ get_tag_via_name(search_terms[1]) = None
     /\ CategoriesNamed(search_terms[1]) # {})
    => LET first == CHOOSE c \in CategoriesNamed(search_terms[1]) :
                        \A d \in CategoriesNamed(search_terms[1]) : c <= d
       IN /\ ResolvedAt(search_terms, 1).via = "Category"
          /\ terms = << CategoryTerm(first) >>
          /\ output_set = Range(get_category_batches(first))

\* the Kits whose name contains the token, letter case aside
KitsNamed(t) == { k \in 1..Len(KitTable) : IContains(KitTable[k].name, t) }

\* C20: a single non-empty token that reaches the Kit classifier and that one
\* or more Kit names contain resolves as a Kit, to the batches that came from
\* a Kit whose name contains it; the empty token never resolves as a Kit.
C20_KitResolution ==
    (SearchDone /\ Len(search_terms) = 1) =>
        LET t == search_terms[1] IN
        /\ (/\ t # << >>
            /\ ReachesUnitName(t)
            /\ ~has_units_of_name(t)
            /\ KitsNamed(t) # {})
           => /\ ResolvedAt(search_terms, 1).via = "Kit"
              /\ \E k \in KitsNamed(t) :
                    output_set = { b \in Batches : BatchTable[b].kit_id = k }
        /\ t = << >> => ResolvedAt(search_terms, 1).via # "Kit"

-----------------------------------------------------------------------------
(* Properties of the Tag classifier *)

\* the Tags whose whole name is the token, letter case aside
TagsNamed(t) == { g \in 1..Len(TagTable) : Lower(TagTable[g].name) = Lower(t) }

\* C21: a single token matches the Tag classifier exactly when some Tag's
\* whole name equals the token, letter case aside (so never for a proper
\* substring of a Tag name or the empty token), and a matching token resolves
\* to exactly the batches joined to that Tag through a tag assignment.
C21_TagResolution ==
    (SearchDone /\ Len(search_terms) = 1) =>
        LET t == search_terms[1] IN
        /\ ResolvedAt(search_terms, 1).via = "Tag" <=> TagsNamed(t) # {}
        /\ TagsNamed(t) # {}
           => \E g \in TagsNamed(t) :
                output_set = { TagAssignmentTable[a].batch_id :
                                 a \in { x \in 1..Len(TagAssignmentTable) :
                                           TagAssignmentTable[x].tag_id = g } }

-----------------------------------------------------------------------------
(* Properties of the truncation *)

\* the first MAX_STRING characters of a string
Truncated(raw) == IF Len(raw) > MAX_STRING THEN SubSeq(raw, 1, MAX_STRING) ELSE raw

\* strings that agree with raw on their first MAX_STRING characters: the
\* truncated string itself and the truncated string followed by other
\* characters
AgreeingWith(raw) ==
    IF Len(raw) < MAX_STRING
    THEN { raw }
    ELSE { Truncated(raw) \o tail : tail \in SeqsUpTo(RawChars, 1) }

\* C22: parse_search_string depends only on the first 128 characters of its
\* input: every string that agrees with the input on its first 128 characters
\* yields the same token list, and an input whose first 128 characters are all
\* separators or punctuation yields the empty list whatever follows.
C22_Truncation ==
    ParseSearchStringDone =>
        LET raw == The(search_phrases) IN
        /\ \A other \in AgreeingWith(raw) : parse_search_string(other) = ret
        /\ (\A i \in 1..Len(Truncated(raw)) : InChars(raw[i], PUNCTIUATION_STRIP))
           => ret = << >>

\* parse_search_string returned the empty list for 128 spaces followed by a
\* letter
C22_Witness ==
    /\ ParseSearchStringDone
    /\ Len(The(search_phrases)) = MAX_STRING + 1
    /\ The(search_phrases)[1] = " "
    /\ The(search_phrases)[MAX_STRING + 1] = "a"
    /\ ret = << >>

-----------------------------------------------------------------------------
(* Properties of the Category saves *)

\* C23: after any sequence of Category saves the stored parent relation has no
\* loop, and a save that would store a loop is aborted with a ValidationError.
C23_LoopFreePersistence ==
    /\ Acyclic
    /\ op = "Category.save" => \A c \in Categories : is_category_safe(c)

-----------------------------------------------------------------------------
(* Properties of the stage display string *)

GetStageStringDone == pc = "done" /\ op = "get_stage_string"

\* the display string of the stage with the given ordinal
StageLabel(ordinal) ==
    LET i == CHOOSE k \in 1..Len(StageChoices) : StageChoices[k].value = ordinal
    IN StageChoices[i].label

\* C24: get_stage_string returns the display string of the stage when the
\* stored ordinal is one of 0..8, and None for every other integer ordinal,
\* the negative ones included.
C24_StageString ==
    GetStageStringDone =>
        IF batch_stage \in 0..8
        THEN ret = Some(StageLabel(batch_stage))
        ELSE ret = None

-----------------------------------------------------------------------------
(* Properties of the Storage capacity *)

\* current_cap after four calls of increment_capacity
FourIncrements(cap) ==
    increment_capacity(increment_capacity(increment_capacity(
        increment_capacity(cap).current_cap).current_cap).current_cap).current_cap

\* current_cap after four calls of decrement_capacity
FourDecrements(cap) ==
    decrement_capacity(decrement_capacity(decrement_capacity(
        decrement_capacity(cap).current_cap).current_cap).current_cap).current_cap

\* what a call of one of the four capacity methods does to current_cap, and
\* what it returns
CapacityStep ==
    /\ op' = "increment_capacity" =>
          /\ current_cap \in 0..3 => current_cap' = current_cap + 1
          /\ current_cap = Capacity.FULL => current_cap' = current_cap
    /\ op' = "decrement_capacity" =>
          /\ current_cap \in 1..4 => current_cap' = current_cap - 1
          /\ current_cap = Capacity.EMPTY => current_cap' = current_cap
    /\ op' = "can_increment_capacity" =>
          result' = Some(current_cap \in 0..3)
    /\ op' = "can_decrement_capacity" =>
          result' = Some(current_cap \in 1..4)
    /\ FourIncrements(Capacity.EMPTY) = Capacity.FULL
    /\ FourDecrements(Capacity.FULL) = Capacity.EMPTY

\* C25: for current_cap in 0..3 increment_capacity raises it by exactly 1 and
\* at FULL leaves it unchanged; for current_cap in 1..4 decrement_capacity
\* lowers it by exactly 1 and at EMPTY leaves it unchanged;
\* can_increment_capacity is True exactly for 0..3 and can_decrement_capacity
\* exactly for 1..4; four increments from EMPTY reach FULL and four decrements
\* from FULL reach EMPTY.
C25_CapacitySteps == [][CapacityStep]_vars

\* increment_capacity was called on a full Storage that an earlier call had
\* moved, and did not raise
C25_Witness ==
    /\ op = "increment_capacity"
    /\ current_cap = Capacity.FULL
    /\ last_moved # None
    /\ ~raised

\* what increment_capacity and decrement_capacity do when current_cap is
\* outside Storage.Capacity
OutOfBoundsStep ==
    /\ (op' = "increment_capacity" /\ current_cap \notin 0..4) =>
          /\ raised'
          /\ error_message' =
                Some("Cannot increment capacity: current_cap is out of bounds")
          /\ current_cap' = current_cap
    /\ (op' = "decrement_capacity" /\ current_cap \notin 0..4) =>
          /\ raised'
          /\ error_message' =
                Some("Cannot decrement capacity: current_cap is out of bounds")
          /\ current_cap' = current_cap

\* C26: when current_cap is outside 0..4, increment_capacity raises ValueError
\* "Cannot increment capacity: current_cap is out of bounds" and
\* decrement_capacity raises ValueError "Cannot decrement capacity:
\* current_cap is out of bounds", and both leave current_cap unchanged.
C26_OutOfBounds == [][OutOfBoundsStep]_vars

\* decrement_capacity raised on a Storage whose current_cap is FULL + 1
C26_Witness ==
    /\ op = "decrement_capacity"
    /\ current_cap = Capacity.FULL + 1
    /\ raised
    /\ error_message = Some("Cannot decrement capacity: current_cap is out of bounds")

\* move_container leaves everything but location and last_moved as it was
MoveStep ==
    op' = "move_container" =>
        /\ current_cap' = current_cap
        /\ UNCHANGED << parent, edit_date, batch_stage >>
        /\ ~raised'

\* C30: starting from a Storage whose current_cap is in 0..4, after any finite
\* sequence of increment_capacity, decrement_capacity and move_container calls
\* current_cap is still in 0..4 and no call raised; move_container changes
\* only location and last_moved and leaves current_cap unchanged.
C30_CapacityInvariant ==
    /\ [](current_cap \in 0..4 /\ ~raised /\ error_message = None)
    /\ [][MoveStep]_vars

\* a Storage that was emptied by decrement_capacity and then moved to another
\* place
C30_Witness ==
    /\ op = "move_container"
    /\ current_cap = Capacity.EMPTY
    /\ location = "Attic"
    /\ last_moved = Some(2)

-----------------------------------------------------------------------------
(* Properties of the order of the displayed list *)

\* the characters of the stored names, by code point
CodePoints == << " " >> \o Digits \o UpperChars \o LowerChars

Ord(c) == CHOOSE i \in 1..Len(CodePoints) : CodePoints[i] = c

\* a <= b for two Python strings
RECURSIVE StrLeq(_, _)
StrLeq(a, b) ==
    IF a = << >> THEN TRUE
    ELSE IF b = << >> THEN FALSE
    ELSE IF Head(a) = Head(b) THEN StrLeq(Tail(a), Tail(b))
    ELSE Ord(Head(a)) < Ord(Head(b))

\* C27: the list the caller displays is sorted by edit date descending, and
\* any two records with the same edit date appear in ascending order of their
\* display name.
C27_ResultOrdering ==
    (BatchIndexFuncDone /\ ~raised) =>
        LET list == The(context).batch_list IN
        \A i, j \in 1..Len(list) :
            i < j =>
                \/ The(edit_date[list[i]]) > The(edit_date[list[j]])
                \/ /\ edit_date[list[i]] = edit_date[list[j]]
                   /\ StrLeq(Batch_str(list[i]), Batch_str(list[j]))

-----------------------------------------------------------------------------
(* Properties of validity and tokens together *)

\* C28: for every raw string of any length, if is_valid_search_string answers
\* True then parse_search_string returns at least one token; this is stated
\* of the pair in searches.py and of the pair in views.py that BatchIndexFunc
\* calls.
C28_ValidImpliesTokens ==
    (IsValidSearchStringDone /\ ret = TRUE) =>
        IF op = "is_valid_search_string"
        THEN parse_search_string(The(search_phrases)) # << >>
        ELSE \E i \in 1..Len(views_parse_search_string(The(search_phrases))) :
                views_parse_search_string(The(search_phrases))[i] # << >>

-----------------------------------------------------------------------------
(* Properties of the duplicate skipping *)

\* the positions of tokens the loop left with continue
Skipped(tokens) ==
    { i \in 1..Len(tokens) : ResolvedAt(tokens, i).continue }

\* the i-th and the j-th token resolve in the same branch to the same entity
SameEntity(tokens, i, j) ==
    /\ DispatchOf[tokens[i]].via = DispatchOf[tokens[j]].via
    /\ DispatchOf[tokens[i]].term = DispatchOf[tokens[j]].term

\* C29: wide_db_search skips a token as a duplicate only if an earlier token
\* of the same query resolved to the same entity of the same taxonomy; a token
\* resolving to a Kit, a Tag, a unit type or a unit name is never skipped
\* because an earlier token of another taxonomy recorded an equal term string.
C29_SkipPerEntity ==
    SearchDone =>
        \A i \in Skipped(search_terms) :
            \E j \in 1..(i - 1) : SameEntity(search_terms, i, j)

====
